---- MODULE Spec2Model ----
(***************************************************************************)
(* Model of fractal_server/app/runner/_common.py:                          *)
(*   - auto_output_dataset and validate_workflow_compatibility, the        *)
(*     dataset / workflow compatibility resolver;                          *)
(*   - set_job_logger and close_job_logger, the per-job logger lifecycle,  *)
(*     together with the parts of the logging library they drive.         *)
(***************************************************************************)
EXTENDS Integers, Sequences, FiniteSets, TLC

VARIABLES
    call,       \* the arguments of the last resolver call
    outcome,    \* what that call returned or raised
    handlers,   \* logger name -> logger.handlers, a sequence of handler ids
    hobj,       \* the handler objects created so far, by id
    levelAttr,  \* logger name -> logger.level
    setLevelAttr, \* logger name -> the value bound to the attribute setLevel
    files,      \* path -> the file on disk
    job,        \* each job's position and the arguments of its acquire
    last        \* the last logger step taken

loggerVars == <<handlers, hobj, levelAttr, setLevelAttr, files, job, last>>
vars == <<call, outcome, handlers, hobj, levelAttr, setLevelAttr, files, job, last>>

----------------------------------------------------------------------------
(* Bounds of the resolver's inputs *)

MaxPaths == 2

TypeTags == {"zarr", "png"}
PathNames == {"/data/a", "/data/b"}

RECURSIVE SeqsUpTo(_, _)
SeqsUpTo(S, n) ==
    IF n = 0 THEN {<<>>}
    ELSE LET shorter == SeqsUpTo(S, n - 1)
         IN  shorter \cup {Append(s, x) : s \in {t \in shorter : Len(t) = n - 1}, x \in S}

(* models.Dataset, as far as the resolver reads it *)
Dataset ==
    [name : {"dataset"}, type : TypeTags, read_only : BOOLEAN,
     paths : SeqsUpTo(PathNames, MaxPaths)]

(* models.task.Task, as far as the resolver reads it *)
Task == [name : {"workflow"}, input_type : TypeTags \cup {"Any"}]

(* Optional[Dataset]: <<>> is None, <<d>> is the dataset d *)
OptionalDataset == {<<>>} \cup {<<d>> : d \in Dataset}

----------------------------------------------------------------------------
(* Outcomes of a call: a return value or a raised exception.  A return     *)
(* value carries its Python type, since one branch returns a str and       *)
(* another a list.                                                         *)

NoDataset == <<>>

Raise(exc, msg) ==
    [exc |-> exc, msg |-> msg, rtype |-> "none", rstr |-> "", rlist |-> <<>>,
     rds |-> NoDataset]

ReturnStr(s) ==
    [exc |-> "none", msg |-> <<>>, rtype |-> "str", rstr |-> s, rlist |-> <<>>,
     rds |-> NoDataset]

ReturnList(l) ==
    [exc |-> "none", msg |-> <<>>, rtype |-> "list", rstr |-> "", rlist |-> l,
     rds |-> NoDataset]

ReturnDataset(d) ==
    [exc |-> "none", msg |-> <<>>, rtype |-> "Dataset", rstr |-> "", rlist |-> <<>>,
     rds |-> <<d>>]

NoOutcome ==
    [exc |-> "none", msg |-> <<>>, rtype |-> "none", rstr |-> "", rlist |-> <<>>,
     rds |-> NoDataset]

----------------------------------------------------------------------------
(* auto_output_dataset *)

auto_output_dataset(input_dataset, overwrite_input) ==
    IF overwrite_input /\ ~input_dataset.read_only
    THEN IF Len(input_dataset.paths) # 1
         THEN Raise("ValueError", <<>>)
         ELSE ReturnDataset(input_dataset)
    ELSE Raise("NotImplementedError", <<>>)

----------------------------------------------------------------------------
(* validate_workflow_compatibility *)

TypeCheckIgnoresAny(workflow, input_dataset) ==
    workflow.input_type # input_dataset.type

TypeIncompatible(workflow, input_dataset) ==
    /\ workflow.input_type # "Any"
    /\ workflow.input_type # input_dataset.type

TypeErrorMessage(workflow, input_dataset) ==
    <<"Incompatible types", workflow.input_type, "of workflow", workflow.name,
      "and", input_dataset.type, "of dataset", input_dataset.name>>

OverwritePathLengthFirst(input_dataset) ==
    IF Len(input_dataset.paths) # 1
    THEN Raise("ValueError",
               <<"Cannot determine output path: multiple input paths to overwrite">>)
    ELSE IF input_dataset.read_only
         THEN Raise("ValueError", <<"Input dataset is read-only">>)
         ELSE ReturnStr(input_dataset.paths[1])

(* the branch taken when no output dataset is given (lines 58-69) *)
OverwriteInputPath(input_dataset) ==
    IF input_dataset.read_only
    THEN Raise("ValueError", <<"Input dataset is read-only">>)
    ELSE IF Len(input_dataset.paths) # 1
         THEN Raise("ValueError",
                    <<"Cannot determine output path: multiple input paths to overwrite">>)
         ELSE ReturnStr(input_dataset.paths[1])

ExplicitOutputPathPicksFirst(output_dataset) ==
    IF Len(output_dataset.paths) = 0
    THEN Raise("ValueError",
               <<"Cannot determine output path: Multiple paths in dataset.">>)
    ELSE ReturnList(output_dataset.paths)

(* the branch taken when an output dataset is given (lines 71-75): the     *)
(* value bound to output_path is the list output_dataset.paths itself      *)
ExplicitOutputPath(output_dataset) ==
    IF Len(output_dataset.paths) # 1
    THEN Raise("ValueError",
               <<"Cannot determine output path: Multiple paths in dataset.">>)
    ELSE ReturnList(output_dataset.paths)

validate_workflow_compatibility(input_dataset, workflow, output_dataset) ==
    IF TypeIncompatible(workflow, input_dataset)
    THEN Raise("TypeError", TypeErrorMessage(workflow, input_dataset))
    ELSE IF output_dataset = <<>>
         THEN OverwriteInputPath(input_dataset)
         ELSE ExplicitOutputPath(output_dataset[1])

----------------------------------------------------------------------------
(* The resolver as a state machine: each step is one call *)

ResolverInputs ==
    [fn : {"none"}, workflow : Task, input_dataset : Dataset,
     output_dataset : OptionalDataset, overwrite_input : BOOLEAN]

CallValidate ==
    /\ call.fn = "none"
    /\ call' = [call EXCEPT !.fn = "validate_workflow_compatibility"]
    /\ outcome' = validate_workflow_compatibility(call.input_dataset, call.workflow,
                                                  call.output_dataset)
    /\ UNCHANGED loggerVars

CallAuto ==
    /\ call.fn = "none"
    /\ call' = [call EXCEPT !.fn = "auto_output_dataset"]
    /\ outcome' = auto_output_dataset(call.input_dataset, call.overwrite_input)
    /\ UNCHANGED loggerVars

----------------------------------------------------------------------------
(* The job logger lifecycle.                                               *)
(*                                                                         *)
(* logging keeps one Logger object per name in a process-wide registry;    *)
(* logging.getLogger(name) returns that object, creating it with level     *)
(* NOTSET, no handlers, and the root logger as parent.                     *)

MaxHandlers == 2    \* FileHandlers created over a run
MaxLines == 2       \* lines a log file may hold
Jobs == {1, 2}
LoggerNames == {"job-1", "job-2"}
LogPaths == {"/tmp/job-1.log", "/tmp/job-2.log"}

(* logging's numeric levels *)
Level == [NOTSET |-> 0, DEBUG |-> 10, INFO |-> 20, WARNING |-> 30, ERROR |-> 40]
AcquireLevels == {Level.INFO, Level.ERROR}
RecordLevels == {Level.INFO, Level.WARNING}

(* the root logger is created with level WARNING and, here, no handlers *)
RootLevel == Level.WARNING

RangeOf(s) == {s[i] : i \in DOMAIN s}

(* a handler that is not a FileHandler, attached to a logger by the         *)
(* application's own logging configuration                                 *)
StreamHandlerObj ==
    [kind |-> "StreamHandler", baseFilename |-> "", mode |-> "",
     stream |-> "stderr", closed |-> FALSE, formatter |-> "None"]

(* open(path, mode): "a" creates the file or keeps its content, "w"        *)
(* creates or truncates it                                                 *)
Open(fs, path, mode) ==
    [fs EXCEPT ![path] = [exists |-> TRUE,
                          content |-> IF mode = "w" THEN <<>> ELSE @.content]]

TruncateMode == "w"

(* the mode set_job_logger passes to logging.FileHandler *)
LogFileMode == "a"

(* logging.FileHandler(log_file_path, mode=...) followed by setFormatter:   *)
(* delay is False, so the constructor opens the file                       *)
NewFileHandler(path, formatter) ==
    [kind |-> "FileHandler", baseFilename |-> path, mode |-> LogFileMode,
     stream |-> "open", closed |-> FALSE, formatter |-> formatter]

IsAnyHandler(h) == TRUE

(* isinstance(handle, logging.FileHandler) *)
IsFileHandler(h) == h.kind = "FileHandler"

(* handle.close() on a FileHandler: flush and close the stream if there is  *)
(* one, set stream to None, mark the handler closed; a second call finds   *)
(* no stream and changes nothing                                           *)
HandleClose(h) ==
    IF h.kind = "FileHandler"
    THEN [h EXCEPT !.stream = "none", !.closed = TRUE]
    ELSE [h EXCEPT !.closed = TRUE]

(* Logger.getEffectiveLevel: the logger's own level unless it is NOTSET,    *)
(* else its parent's (the root logger's)                                   *)
getEffectiveLevel(name) ==
    IF levelAttr[name] # Level.NOTSET THEN levelAttr[name] ELSE RootLevel

(* Logger.isEnabledFor *)
isEnabledFor(name, levelno) == levelno >= getEffectiveLevel(name)

HandlerEmitSkipsClosed(st, id, line) ==
    LET h == st.hobj[id] IN
    IF h.kind = "FileHandler" /\ h.stream = "open"
    THEN [hobj |-> st.hobj,
          files |-> [st.files EXCEPT ![h.baseFilename].content = Append(@, line)]]
    ELSE st

(* FileHandler.emit: reopen the file when the stream is None (the mode is   *)
(* not "w"), then write the formatted record and flush; StreamHandler.emit *)
(* writes to stderr, which is not modelled                                 *)
HandlerEmit(st, id, line) ==
    LET h == st.hobj[id] IN
    IF h.kind = "FileHandler"
    THEN LET reopen == h.stream = "none" /\ (h.mode # "w" \/ ~h.closed)
             fs1 == IF reopen THEN Open(st.files, h.baseFilename, h.mode)
                    ELSE st.files
             h1 == IF reopen THEN [h EXCEPT !.stream = "open"] ELSE h
         IN  IF h1.stream = "open"
             THEN [hobj |-> [st.hobj EXCEPT ![id] = h1],
                   files |-> [fs1 EXCEPT ![h.baseFilename].content = Append(@, line)]]
             ELSE [hobj |-> [st.hobj EXCEPT ![id] = h1], files |-> fs1]
    ELSE st

(* Logger.callHandlers: every handler of the logger, in order of attachment *)
RECURSIVE callHandlers(_, _, _)
callHandlers(st, ids, line) ==
    IF ids = <<>> THEN st
    ELSE callHandlers(HandlerEmit(st, Head(ids), line), Tail(ids), line)

----------------------------------------------------------------------------
(* The steps of the jobs *)

IdleJob ==
    [pc |-> "idle", logger_name |-> "", log_file_path |-> "", handler |-> 0]

NoStep == [op |-> "none", job |-> 0, name |-> "", level |-> 0, again |-> FALSE]

NumFileHandlers == Cardinality({id \in DOMAIN hobj : hobj[id].kind = "FileHandler"})

(* set_job_logger(logger_name=name, log_file_path=path, level=level) *)
Acquire(j) ==
    /\ job[j].pc \in {"idle", "released"}
    /\ NumFileHandlers < MaxHandlers
    /\ \E name \in LoggerNames, path \in LogPaths, level \in AcquireLevels :
          /\ setLevelAttr' = [setLevelAttr EXCEPT ![name] = [bound |-> "int", value |-> level]]
          /\ files' = Open(files, path, LogFileMode)
          /\ hobj' = Append(hobj, NewFileHandler(path, "None"))
          /\ handlers' = [handlers EXCEPT ![name] = Append(@, Len(hobj) + 1)]
          /\ job' = [job EXCEPT ![j] = [pc |-> "running", logger_name |-> name,
                                        log_file_path |-> path,
                                        handler |-> Len(hobj) + 1]]
          /\ last' = [op |-> "acquire", job |-> j, name |-> name, level |-> level,
                      again |-> job[j].pc = "released"]
    /\ UNCHANGED <<levelAttr, call, outcome>>

(* the job logs one record through the logger set_job_logger returned *)
Emit(j) ==
    /\ job[j].pc = "running"
    /\ \A p \in LogPaths : Len(files[p].content) < MaxLines
    /\ \E levelno \in RecordLevels :
          LET name == job[j].logger_name
              st == IF isEnabledFor(name, levelno)
                    THEN callHandlers([hobj |-> hobj, files |-> files],
                                      handlers[name], j)
                    ELSE [hobj |-> hobj, files |-> files]
          IN  /\ hobj' = st.hobj
              /\ files' = st.files
              /\ last' = [op |-> "emit", job |-> j, name |-> name, level |-> levelno,
                          again |-> FALSE]
    /\ UNCHANGED <<handlers, levelAttr, setLevelAttr, job, call, outcome>>

(* close_job_logger(logger) *)
close_job_logger(name) ==
    [id \in DOMAIN hobj |->
        IF id \in RangeOf(handlers[name]) /\ IsFileHandler(hobj[id])
        THEN HandleClose(hobj[id])
        ELSE hobj[id]]

Release(j) ==
    /\ job[j].pc \in {"running", "released"}
    /\ hobj' = close_job_logger(job[j].logger_name)
    /\ job' = [job EXCEPT ![j].pc = "released"]
    /\ last' = [op |-> "release", job |-> j, name |-> job[j].logger_name,
                level |-> 0, again |-> job[j].pc = "released"]
    /\ UNCHANGED <<handlers, levelAttr, setLevelAttr, files, call, outcome>>

----------------------------------------------------------------------------
(* Specifications *)

LoggerStart(pre) ==
    /\ hobj = [i \in DOMAIN pre |-> StreamHandlerObj]
    /\ handlers = [n \in LoggerNames |->
                     IF pre # <<>> /\ pre[1] = n THEN <<1>> ELSE <<>>]
    /\ levelAttr = [n \in LoggerNames |-> Level.NOTSET]
    /\ setLevelAttr = [n \in LoggerNames |-> [bound |-> "method", value |-> 0]]
    /\ files = [p \in LogPaths |-> [exists |-> FALSE, content |-> <<>>]]
    /\ job = [j \in Jobs |-> IdleJob]
    /\ last = NoStep

(* the resolver: the arguments are drawn here, the calls apply the functions *)
Init ==
    /\ call \in ResolverInputs
    /\ outcome = NoOutcome
    /\ LoggerStart(<<>>)

Next == CallValidate \/ CallAuto

Spec == Init /\ [][Next]_vars

(* the job loggers: no logger has a FileHandler yet; the logger "job-1" may  *)
(* carry a handler of another kind                                          *)
LoggerInit ==
    /\ call = [fn |-> "none", workflow |-> [name |-> "workflow", input_type |-> "Any"],
                input_dataset |-> [name |-> "dataset", type |-> "zarr",
                                   read_only |-> FALSE, paths |-> <<>>],
                output_dataset |-> <<>>, overwrite_input |-> FALSE]
    /\ outcome = NoOutcome
    /\ \E pre \in {<<>>, <<"job-1">>} : LoggerStart(pre)

LoggerNext == \E j \in Jobs : Acquire(j) \/ Emit(j) \/ Release(j)

LoggerSpec == LoggerInit /\ [][LoggerNext]_vars

----------------------------------------------------------------------------
(* Properties of the resolver, checked under Spec *)

(* the error kinds of the design, read off the exception a call raised *)
ErrorKind(o) ==
    CASE o.exc = "TypeError" -> "TypeMismatch"
      [] o.exc = "NotImplementedError" -> "OverwriteNotRequested"
      [] o.exc = "ValueError" /\ o.msg = <<"Input dataset is read-only">> -> "ReadOnlyInput"
      [] o.exc = "ValueError" /\ o.msg # <<"Input dataset is read-only">> -> "AmbiguousOutputPath"
      [] OTHER -> "none"

Validated == call.fn = "validate_workflow_compatibility"
AutoSelected == call.fn = "auto_output_dataset"
OutputSupplied == call.output_dataset # <<>>
TypesDiffer ==
    /\ call.workflow.input_type # "Any"
    /\ call.workflow.input_type # call.input_dataset.type

(* the dataset whose path a successful call returns *)
TargetDataset ==
    IF OutputSupplied THEN call.output_dataset[1] ELSE call.input_dataset

(* C1: validate_workflow_compatibility raises TypeError exactly when the     *)
(* workflow's input_type is not "Any" and differs from the input dataset's  *)
(* type, whatever read_only, the paths and the output dataset are.          *)
C1_TypeMismatchExactly ==
    Validated => (ErrorKind(outcome) = "TypeMismatch" <=> TypesDiffer)

C1_Witness ==
    /\ Validated
    /\ TypesDiffer
    /\ call.input_dataset.read_only
    /\ OutputSupplied
    /\ Len(call.output_dataset[1].paths) = 2
    /\ ErrorKind(outcome) = "TypeMismatch"

(* C2: every successful call returns the path of a dataset that is not      *)
(* read-only.                                                              *)
C2_TargetNotReadOnly ==
    (Validated /\ outcome.exc = "none") => ~TargetDataset.read_only

(* C3: for type-compatible calls whose target dataset has exactly one path   *)
(* (a writable input dataset with no output dataset, or a supplied output   *)
(* dataset), the call succeeds and returns that path as a str, in both      *)
(* branches.                                                               *)
C3_ResultIsThePathString ==
    ( /\ Validated
      /\ ~TypesDiffer
      /\ OutputSupplied \/ ~call.input_dataset.read_only
      /\ Len(TargetDataset.paths) = 1 )
    => /\ outcome.exc = "none"
       /\ outcome.rtype = "str"
       /\ outcome.rstr = TargetDataset.paths[1]

(* C4 as stated: a read-only input dataset and no output dataset always      *)
(* give ReadOnlyInput.                                                     *)
C4_ReadOnlyAlways ==
    (Validated /\ call.input_dataset.read_only /\ ~OutputSupplied)
    => ErrorKind(outcome) = "ReadOnlyInput"

(* C4: when the type check passes, a read-only input dataset and no output  *)
(* dataset give ReadOnlyInput, for every length of paths.                   *)
C4_ReadOnlyAfterTypeCheck ==
    (Validated /\ ~TypesDiffer /\ call.input_dataset.read_only /\ ~OutputSupplied)
    => ErrorKind(outcome) = "ReadOnlyInput"

C4_Witness ==
    /\ Validated
    /\ ~TypesDiffer
    /\ call.input_dataset.read_only
    /\ ~OutputSupplied
    /\ Len(call.input_dataset.paths) = 0
    /\ ErrorKind(outcome) = "ReadOnlyInput"

ExactlyOnePathRule ==
    /\ (OutputSupplied /\ Len(call.output_dataset[1].paths) # 1)
          => ErrorKind(outcome) = "AmbiguousOutputPath"
    /\ (~OutputSupplied /\ ~call.input_dataset.read_only
           /\ Len(call.input_dataset.paths) # 1)
          => ErrorKind(outcome) = "AmbiguousOutputPath"
    /\ outcome.exc = "none" => Len(TargetDataset.paths) = 1

(* C5 as stated: a target dataset whose paths length is not 1 always gives   *)
(* AmbiguousOutputPath, and no call succeeds with such a target.            *)
C5_OnePathAlways == Validated => ExactlyOnePathRule

(* C5: when the type check passes, a target dataset whose paths length is   *)
(* not 1 gives AmbiguousOutputPath (a supplied output dataset regardless of *)
(* the input dataset's read_only and paths), and no call at all succeeds    *)
(* with a target that holds zero or several paths.                          *)
C5_OnePathAfterTypeCheck ==
    /\ (Validated /\ ~TypesDiffer) => ExactlyOnePathRule
    /\ (Validated /\ outcome.exc = "none") => Len(TargetDataset.paths) = 1

C5_Witness ==
    /\ Validated
    /\ ~TypesDiffer
    /\ OutputSupplied
    /\ Len(call.output_dataset[1].paths) = 2
    /\ call.input_dataset.read_only
    /\ Len(call.input_dataset.paths) = 1
    /\ ErrorKind(outcome) = "AmbiguousOutputPath"

(* C6: auto_output_dataset succeeds exactly when overwrite_input is set, the *)
(* input dataset is writable and has one path, returning that dataset, and  *)
(* otherwise fails with an error that tells the cause: OverwriteNotRequested*)
(* without the flag, ReadOnlyInput for a read-only dataset, and             *)
(* AmbiguousOutputPath for a writable one whose paths length is not 1.      *)
C6_AutoErrorPerCause ==
    AutoSelected =>
       LET d == call.input_dataset
           ow == call.overwrite_input
       IN  /\ outcome.exc = "none" <=> (ow /\ ~d.read_only /\ Len(d.paths) = 1)
           /\ outcome.exc = "none" => outcome.rds = <<d>>
           /\ ~ow => ErrorKind(outcome) = "OverwriteNotRequested"
           /\ (ow /\ d.read_only) => ErrorKind(outcome) = "ReadOnlyInput"
           /\ (ow /\ ~d.read_only /\ Len(d.paths) # 1)
                 => ErrorKind(outcome) = "AmbiguousOutputPath"

----------------------------------------------------------------------------
(* Properties of the job logger lifecycle, checked under LoggerSpec.  In a  *)
(* step, last' names the operation the step performs.                       *)

IsPrefix(s, t) == Len(s) <= Len(t) /\ \A i \in DOMAIN s : s[i] = t[i]

FileSinksOf(name) ==
    {id \in RangeOf(handlers[name]) : hobj[id].kind = "FileHandler"}

(* C7: a release closes every file-backed sink of its logger and nothing     *)
(* else: the sinks of the other loggers and the sinks that are not          *)
(* file-backed stay as they were, no sink is attached or detached, no file  *)
(* changes; and a release that finds every file-backed sink of its logger   *)
(* already closed, as a second release does, changes nothing.               *)
C7_ReleaseIdempotent ==
    [][ last'.op = "release" =>
          LET name == last'.name IN
          /\ \A id \in FileSinksOf(name) : hobj'[id].stream = "none"
          /\ DOMAIN hobj' = DOMAIN hobj
          /\ \A id \in DOMAIN hobj \ FileSinksOf(name) : hobj'[id] = hobj[id]
          /\ handlers' = handlers
          /\ files' = files
          /\ (\A id \in FileSinksOf(name) : hobj[id].stream = "none") => hobj' = hobj
      ]_vars

(* a second release by a job, on a logger that also carries a sink that is  *)
(* not file-backed, while the other logger has an open file sink            *)
C7_Witness ==
    /\ last.op = "release"
    /\ last.again
    /\ \E id \in FileSinksOf(last.name) : hobj[id].stream = "none"
    /\ \E id \in RangeOf(handlers[last.name]) :
          hobj[id].kind = "StreamHandler" /\ ~hobj[id].closed
    /\ \E other \in LoggerNames \ {last.name} :
          \E id \in FileSinksOf(other) : hobj[id].stream = "open"

(* C8: after acquire(logger_name, log_file_path, min_level) the logger's     *)
(* effective threshold is min_level.                                        *)
C8_AcquireSetsThreshold ==
    last.op = "acquire" => getEffectiveLevel(last.name) = last.level

(* C8, on the records: a record emitted through the handle of a job that is *)
(* the only one to have acquired its logger reaches the job's file exactly  *)
(* when its severity is at least the min_level of the acquire.              *)
C8_RecordsFollowThreshold ==
    [][ (last'.op = "emit" /\ last.op = "acquire" /\ last.job = last'.job) =>
          LET path == job[last.job].log_file_path IN
          (files'[path].content # files[path].content) <=> (last'.level >= last.level)
      ]_vars

(* C9: no step removes or rewrites a line of a log file or deletes the file; *)
(* an acquire leaves the file of its path in existence with the content it  *)
(* had; after a release every file sink of the released logger is closed,   *)
(* its file exists, and a file whose sinks all belong to that logger is     *)
(* held open by no sink.                                                    *)
C9_AppendNeverTruncates ==
    [][ /\ \A p \in LogPaths :
              /\ IsPrefix(files[p].content, files'[p].content)
              /\ files[p].exists => files'[p].exists
        /\ last'.op = "acquire" =>
              LET path == job'[last'.job].log_file_path IN
              /\ files'[path].exists
              /\ files'[path].content = files[path].content
        /\ last'.op = "release" =>
              LET mine == {id \in RangeOf(handlers'[last'.name]) :
                              hobj'[id].kind = "FileHandler"}
              IN  /\ \A id \in mine :
                        /\ hobj'[id].stream = "none"
                        /\ files'[hobj'[id].baseFilename].exists
                  /\ \A p \in LogPaths :
                        (\A id \in DOMAIN hobj' :
                            hobj'[id].baseFilename = p => id \in mine)
                        => \A id \in DOMAIN hobj' :
                              hobj'[id].baseFilename = p => hobj'[id].stream # "open"
      ]_vars

(* a second acquire on a path whose earlier sink was closed by a release,   *)
(* the file still holding the lines written before                         *)
C9_Witness ==
    /\ last.op = "acquire"
    /\ last.again
    /\ LET path == job[last.job].log_file_path IN
       /\ files[path].content # <<>>
       /\ \E id \in DOMAIN hobj :
             /\ id # job[last.job].handler
             /\ hobj[id].baseFilename = path
             /\ hobj[id].stream = "none"
       /\ hobj[job[last.job].handler].stream = "open"

(* C10: while a job is between its acquire and its release, no step of       *)
(* another job that logs to a different file closes the job's file sink or  *)
(* writes to the job's file.                                                *)
C10_ExclusiveOwnership ==
    [][ \A i \in Jobs :
          ( /\ last'.job # i
            /\ job[i].pc = "running"
            /\ job'[last'.job].log_file_path # job[i].log_file_path )
          => /\ hobj[job[i].handler].stream = "open"
                   => hobj'[job[i].handler].stream = "open"
             /\ files'[job[i].log_file_path].content = files[job[i].log_file_path].content
      ]_vars

(* the file sinks of a logger that are bound to a path, after a step *)
FileSinksOn(name, p) == {id \in FileSinksOf(name) : hobj[id].baseFilename = p}

(* C11: sinks are never detached.  No logger starts with a file sink; an     *)
(* acquire appends exactly one file sink to its logger's sinks and leaves   *)
(* the other loggers' sinks alone; a release and an emit attach and detach  *)
(* nothing, so a logger's file sinks number its acquires.  A record the     *)
(* logger accepts is dispatched to every file sink of the logger, those     *)
(* closed by earlier releases included: each is open afterwards and each    *)
(* file receives the record once per sink bound to it.                      *)
C11_SinksNeverDetached ==
    /\ \A n \in LoggerNames : FileSinksOf(n) = {}
    /\ [][ /\ last'.op = "acquire" =>
                 /\ \E id \in DOMAIN hobj' \ DOMAIN hobj :
                       /\ hobj'[id].kind = "FileHandler"
                       /\ handlers' = [handlers EXCEPT ![last'.name] = Append(@, id)]
                 /\ \A id \in DOMAIN hobj : hobj'[id].kind = hobj[id].kind
           /\ last'.op \in {"release", "emit"} =>
                 /\ handlers' = handlers
                 /\ DOMAIN hobj' = DOMAIN hobj
                 /\ \A id \in DOMAIN hobj :
                       /\ hobj'[id].kind = hobj[id].kind
                       /\ hobj'[id].baseFilename = hobj[id].baseFilename
           /\ (last'.op = "emit" /\ last'.level >= getEffectiveLevel(last'.name)) =>
                 /\ \A id \in FileSinksOf(last'.name) : hobj'[id].stream = "open"
                 /\ \A p \in LogPaths :
                       LET n == Cardinality(FileSinksOn(last'.name, p))
                           old == files[p].content
                           new == files'[p].content
                       IN  /\ Len(new) = Len(old) + n
                           /\ \A i \in DOMAIN new : i > Len(old) => new[i] = last'.job
         ]_vars

(* the second acquire on a logger has been made, on another file than the   *)
(* first, whose sink a release had closed: the record just emitted reopened *)
(* that sink and is in both files                                           *)
C11_Witness ==
    /\ last.op = "emit"
    /\ last.level >= getEffectiveLevel(last.name)
    /\ Cardinality(FileSinksOf(last.name)) = 2
    /\ \E id \in FileSinksOf(last.name) :
          LET path == hobj[id].baseFilename IN
          /\ id # job[last.job].handler
          /\ path # job[last.job].log_file_path
          /\ hobj[id].closed
          /\ hobj[id].stream = "open"
          /\ files[path].content # <<>>
          /\ files[path].content[Len(files[path].content)] = last.job
    /\ LET mine == files[job[last.job].log_file_path].content IN
       mine # <<>> /\ mine[Len(mine)] = last.job

====
